---- MODULE Spec2Model ----
(***************************************************************************)
(* A model of the Mini-PL front end: the character-level scanner           *)
(* (src/src/scanner.rs) and the token-level parser (src/src/parser/mod.rs).*)
(* Every handler of the two state machines is an operator from the         *)
(* struct's fields (and the input character or token) to the fields after  *)
(* the call; the actions feed one character or one token to the handler    *)
(* the driver loop selects.                                                *)
(*                                                                         *)
(* Characters are Unicode code points (integers); a String is a sequence   *)
(* of code points.  Ch("x") is the code point of a printable ASCII         *)
(* character and Str(<<"v","a","r">>) the String "var".                    *)
(***************************************************************************)
EXTENDS Integers, Sequences, FiniteSets, TLC

VARIABLES
    scanner,        \* struct Scanner (scanner.rs:80-91) plus `panicked`
    c,              \* the character the scan loop handed out last
    n,              \* number of characters of the source consumed so far
    scan_returned,  \* scan() has returned self.tokens.clone()
    source,         \* the characters of the source consumed so far
    returned,       \* the token sequences the calls of scan returned so far
    word,           \* history: characters consumed since Other mode was entered
    gdepth,         \* history: comment nesting depth by the textual rule
    gprev,          \* history: last comment character not yet used by a pair
    gclean,         \* history: the open comment was entered with an empty buffer
    parser,         \* struct Parser (parser/mod.rs:80-88) plus `state`,
                    \* `panicked` and the history fields `emitted`, `trace`
    t,              \* the token parse() took last
    routed,         \* number of calls of handle_statement so far
    parse_returned, \* parse() has returned
    channel,        \* the tokens sent on the channel and not yet received
    sent,           \* history: the tokens sent on the channel so far
    taken,          \* the tokens parse has taken from the Receiver
    sender_dropped, \* the producer has finished and dropped its Sender
    receiver_dropped, \* the thread running parse has dropped the Receiver
    producer_panicked \* a put of the producer has panicked

scan_vars ==
    <<scanner, c, n, scan_returned, source, returned, word, gdepth, gprev,
      gclean>>
parse_vars == <<parser, t, routed, parse_returned>>
chan_vars ==
    <<channel, sent, taken, sender_dropped, receiver_dropped,
      producer_panicked>>
vars == <<scan_vars, parse_vars, chan_vars>>

(***************************************************************************)
(* Bounds of the model.                                                    *)
(***************************************************************************)
MaxLen == 5      \* source texts of at most MaxLen characters, and
MaxEsc == 9      \* the rest of a multi-character escape they end in, while
                 \* the escape buffer holds at most MaxEsc characters
MaxCalls == 2    \* at most MaxCalls calls of scan on one Scanner
MaxCommentLen == 7  \* source texts over CommentChars of at most
                    \* MaxCommentLen characters
MaxBuf == 5      \* parser token buffer of at most MaxBuf tokens
MaxStmts == 3    \* token sequences of at most MaxStmts statements, counting
                 \* the completed statements and the open for loops
MaxSent == 5     \* at most MaxSent tokens sent on the channel

(***************************************************************************)
(* Characters and strings.                                                 *)
(***************************************************************************)
Printable ==
    <<" ", "!", "\"", "#", "$", "%", "&", "'", "(", ")", "*", "+", ",", "-",
      ".", "/", "0", "1", "2", "3", "4", "5", "6", "7", "8", "9", ":", ";",
      "<", "=", ">", "?", "@", "A", "B", "C", "D", "E", "F", "G", "H", "I",
      "J", "K", "L", "M", "N", "O", "P", "Q", "R", "S", "T", "U", "V", "W",
      "X", "Y", "Z", "[", "\\", "]", "^", "_", "grave", "a", "b", "c", "d", "e",
      "f", "g", "h", "i", "j", "k", "l", "m", "n", "o", "p", "q", "r", "s",
      "t", "u", "v", "w", "x", "y", "z", "{", "|", "}", "~">>

ChTable ==
    [s \in {Printable[i] : i \in 1..Len(Printable)} |->
        31 + (CHOOSE i \in 1..Len(Printable) : Printable[i] = s)]

Ch(s) == ChTable[s]

Str(q) == [i \in 1..Len(q) |-> Ch(q[i])]

\* the control characters the scanner names: '\t', '\n', '\r'
TAB == 9
LF == 10
CR == 13

\* a letter outside ASCII, U+00E9, that is_alphanumeric accepts
EACUTE == 233

IsDigit(ch) == ch \in Ch("0")..Ch("9")

IsHexDigit(ch) ==
    \/ ch \in Ch("0")..Ch("9")
    \/ ch \in Ch("a")..Ch("f")
    \/ ch \in Ch("A")..Ch("F")

\* the code points above ASCII that are alphanumeric: those with the Unicode
\* property Alphabetic or of general category Nd, Nl or No (Unicode 17.0),
\* as inclusive ranges in increasing order
AlphanumericRanges ==
    <<
    <<170, 170>>, <<178, 179>>, <<181, 181>>, <<185, 186>>, <<188, 190>>,
    <<192, 214>>, <<216, 246>>, <<248, 705>>, <<710, 721>>, <<736, 740>>,
    <<748, 748>>, <<750, 750>>, <<837, 837>>, <<867, 884>>, <<886, 887>>,
    <<890, 893>>, <<895, 895>>, <<902, 902>>, <<904, 906>>, <<908, 908>>,
    <<910, 929>>, <<931, 1013>>, <<1015, 1153>>, <<1162, 1327>>,
    <<1329, 1366>>, <<1369, 1369>>, <<1376, 1416>>, <<1456, 1469>>,
    <<1471, 1471>>, <<1473, 1474>>, <<1476, 1477>>, <<1479, 1479>>,
    <<1488, 1514>>, <<1519, 1522>>, <<1552, 1562>>, <<1568, 1623>>,
    <<1625, 1641>>, <<1646, 1747>>, <<1749, 1756>>, <<1761, 1768>>,
    <<1773, 1788>>, <<1791, 1791>>, <<1808, 1855>>, <<1869, 1969>>,
    <<1984, 2026>>, <<2036, 2037>>, <<2042, 2042>>, <<2048, 2071>>,
    <<2074, 2092>>, <<2112, 2136>>, <<2144, 2154>>, <<2160, 2183>>,
    <<2185, 2191>>, <<2199, 2199>>, <<2208, 2249>>, <<2260, 2271>>,
    <<2275, 2281>>, <<2288, 2363>>, <<2365, 2380>>, <<2382, 2384>>,
    <<2389, 2403>>, <<2406, 2415>>, <<2417, 2435>>, <<2437, 2444>>,
    <<2447, 2448>>, <<2451, 2472>>, <<2474, 2480>>, <<2482, 2482>>,
    <<2486, 2489>>, <<2493, 2500>>, <<2503, 2504>>, <<2507, 2508>>,
    <<2510, 2510>>, <<2519, 2519>>, <<2524, 2525>>, <<2527, 2531>>,
    <<2534, 2545>>, <<2548, 2553>>, <<2556, 2556>>, <<2561, 2563>>,
    <<2565, 2570>>, <<2575, 2576>>, <<2579, 2600>>, <<2602, 2608>>,
    <<2610, 2611>>, <<2613, 2614>>, <<2616, 2617>>, <<2622, 2626>>,
    <<2631, 2632>>, <<2635, 2636>>, <<2641, 2641>>, <<2649, 2652>>,
    <<2654, 2654>>, <<2662, 2677>>, <<2689, 2691>>, <<2693, 2701>>,
    <<2703, 2705>>, <<2707, 2728>>, <<2730, 2736>>, <<2738, 2739>>,
    <<2741, 2745>>, <<2749, 2757>>, <<2759, 2761>>, <<2763, 2764>>,
    <<2768, 2768>>, <<2784, 2787>>, <<2790, 2799>>, <<2809, 2812>>,
    <<2817, 2819>>, <<2821, 2828>>, <<2831, 2832>>, <<2835, 2856>>,
    <<2858, 2864>>, <<2866, 2867>>, <<2869, 2873>>, <<2877, 2884>>,
    <<2887, 2888>>, <<2891, 2892>>, <<2902, 2903>>, <<2908, 2909>>,
    <<2911, 2915>>, <<2918, 2927>>, <<2929, 2935>>, <<2946, 2947>>,
    <<2949, 2954>>, <<2958, 2960>>, <<2962, 2965>>, <<2969, 2970>>,
    <<2972, 2972>>, <<2974, 2975>>, <<2979, 2980>>, <<2984, 2986>>,
    <<2990, 3001>>, <<3006, 3010>>, <<3014, 3016>>, <<3018, 3020>>,
    <<3024, 3024>>, <<3031, 3031>>, <<3046, 3058>>, <<3072, 3084>>,
    <<3086, 3088>>, <<3090, 3112>>, <<3114, 3129>>, <<3133, 3140>>,
    <<3142, 3144>>, <<3146, 3148>>, <<3157, 3158>>, <<3160, 3162>>,
    <<3164, 3165>>, <<3168, 3171>>, <<3174, 3183>>, <<3192, 3198>>,
    <<3200, 3203>>, <<3205, 3212>>, <<3214, 3216>>, <<3218, 3240>>,
    <<3242, 3251>>, <<3253, 3257>>, <<3261, 3268>>, <<3270, 3272>>,
    <<3274, 3276>>, <<3285, 3286>>, <<3292, 3294>>, <<3296, 3299>>,
    <<3302, 3311>>, <<3313, 3315>>, <<3328, 3340>>, <<3342, 3344>>,
    <<3346, 3386>>, <<3389, 3396>>, <<3398, 3400>>, <<3402, 3404>>,
    <<3406, 3406>>, <<3412, 3427>>, <<3430, 3448>>, <<3450, 3455>>,
    <<3457, 3459>>, <<3461, 3478>>, <<3482, 3505>>, <<3507, 3515>>,
    <<3517, 3517>>, <<3520, 3526>>, <<3535, 3540>>, <<3542, 3542>>,
    <<3544, 3551>>, <<3558, 3567>>, <<3570, 3571>>, <<3585, 3642>>,
    <<3648, 3654>>, <<3661, 3661>>, <<3664, 3673>>, <<3713, 3714>>,
    <<3716, 3716>>, <<3718, 3722>>, <<3724, 3747>>, <<3749, 3749>>,
    <<3751, 3769>>, <<3771, 3773>>, <<3776, 3780>>, <<3782, 3782>>,
    <<3789, 3789>>, <<3792, 3801>>, <<3804, 3807>>, <<3840, 3840>>,
    <<3872, 3891>>, <<3904, 3911>>, <<3913, 3948>>, <<3953, 3971>>,
    <<3976, 3991>>, <<3993, 4028>>, <<4096, 4150>>, <<4152, 4152>>,
    <<4155, 4169>>, <<4176, 4253>>, <<4256, 4293>>, <<4295, 4295>>,
    <<4301, 4301>>, <<4304, 4346>>, <<4348, 4680>>, <<4682, 4685>>,
    <<4688, 4694>>, <<4696, 4696>>, <<4698, 4701>>, <<4704, 4744>>,
    <<4746, 4749>>, <<4752, 4784>>, <<4786, 4789>>, <<4792, 4798>>,
    <<4800, 4800>>, <<4802, 4805>>, <<4808, 4822>>, <<4824, 4880>>,
    <<4882, 4885>>, <<4888, 4954>>, <<4969, 4988>>, <<4992, 5007>>,
    <<5024, 5109>>, <<5112, 5117>>, <<5121, 5740>>, <<5743, 5759>>,
    <<5761, 5786>>, <<5792, 5866>>, <<5870, 5880>>, <<5888, 5907>>,
    <<5919, 5939>>, <<5952, 5971>>, <<5984, 5996>>, <<5998, 6000>>,
    <<6002, 6003>>, <<6016, 6067>>, <<6070, 6088>>, <<6103, 6103>>,
    <<6108, 6108>>, <<6112, 6121>>, <<6128, 6137>>, <<6160, 6169>>,
    <<6176, 6264>>, <<6272, 6314>>, <<6320, 6389>>, <<6400, 6430>>,
    <<6432, 6443>>, <<6448, 6456>>, <<6470, 6509>>, <<6512, 6516>>,
    <<6528, 6571>>, <<6576, 6601>>, <<6608, 6618>>, <<6656, 6683>>,
    <<6688, 6750>>, <<6753, 6772>>, <<6784, 6793>>, <<6800, 6809>>,
    <<6823, 6823>>, <<6847, 6848>>, <<6860, 6862>>, <<6912, 6963>>,
    <<6965, 6979>>, <<6981, 6988>>, <<6992, 7001>>, <<7040, 7081>>,
    <<7084, 7141>>, <<7143, 7153>>, <<7168, 7222>>, <<7232, 7241>>,
    <<7245, 7293>>, <<7296, 7306>>, <<7312, 7354>>, <<7357, 7359>>,
    <<7401, 7404>>, <<7406, 7411>>, <<7413, 7414>>, <<7418, 7418>>,
    <<7424, 7615>>, <<7635, 7668>>, <<7680, 7957>>, <<7960, 7965>>,
    <<7968, 8005>>, <<8008, 8013>>, <<8016, 8023>>, <<8025, 8025>>,
    <<8027, 8027>>, <<8029, 8029>>, <<8031, 8061>>, <<8064, 8116>>,
    <<8118, 8124>>, <<8126, 8126>>, <<8130, 8132>>, <<8134, 8140>>,
    <<8144, 8147>>, <<8150, 8155>>, <<8160, 8172>>, <<8178, 8180>>,
    <<8182, 8188>>, <<8304, 8305>>, <<8308, 8313>>, <<8319, 8329>>,
    <<8336, 8348>>, <<8450, 8450>>, <<8455, 8455>>, <<8458, 8467>>,
    <<8469, 8469>>, <<8473, 8477>>, <<8484, 8484>>, <<8486, 8486>>,
    <<8488, 8488>>, <<8490, 8493>>, <<8495, 8505>>, <<8508, 8511>>,
    <<8517, 8521>>, <<8526, 8526>>, <<8528, 8585>>, <<9312, 9371>>,
    <<9398, 9471>>, <<10102, 10131>>, <<11264, 11492>>, <<11499, 11502>>,
    <<11506, 11507>>, <<11517, 11517>>, <<11520, 11557>>, <<11559, 11559>>,
    <<11565, 11565>>, <<11568, 11623>>, <<11631, 11631>>, <<11648, 11670>>,
    <<11680, 11686>>, <<11688, 11694>>, <<11696, 11702>>, <<11704, 11710>>,
    <<11712, 11718>>, <<11720, 11726>>, <<11728, 11734>>, <<11736, 11742>>,
    <<11744, 11775>>, <<11823, 11823>>, <<12293, 12295>>, <<12321, 12329>>,
    <<12337, 12341>>, <<12344, 12348>>, <<12353, 12438>>, <<12445, 12447>>,
    <<12449, 12538>>, <<12540, 12543>>, <<12549, 12591>>, <<12593, 12686>>,
    <<12690, 12693>>, <<12704, 12735>>, <<12784, 12799>>, <<12832, 12841>>,
    <<12872, 12879>>, <<12881, 12895>>, <<12928, 12937>>, <<12977, 12991>>,
    <<13312, 19903>>, <<19968, 42124>>, <<42192, 42237>>, <<42240, 42508>>,
    <<42512, 42539>>, <<42560, 42606>>, <<42612, 42619>>, <<42623, 42735>>,
    <<42775, 42783>>, <<42786, 42888>>, <<42891, 42972>>, <<42993, 43013>>,
    <<43015, 43047>>, <<43056, 43061>>, <<43072, 43123>>, <<43136, 43203>>,
    <<43205, 43205>>, <<43216, 43225>>, <<43250, 43255>>, <<43259, 43259>>,
    <<43261, 43306>>, <<43312, 43346>>, <<43360, 43388>>, <<43392, 43442>>,
    <<43444, 43455>>, <<43471, 43481>>, <<43488, 43518>>, <<43520, 43574>>,
    <<43584, 43597>>, <<43600, 43609>>, <<43616, 43638>>, <<43642, 43710>>,
    <<43712, 43712>>, <<43714, 43714>>, <<43739, 43741>>, <<43744, 43759>>,
    <<43762, 43765>>, <<43777, 43782>>, <<43785, 43790>>, <<43793, 43798>>,
    <<43808, 43814>>, <<43816, 43822>>, <<43824, 43866>>, <<43868, 43881>>,
    <<43888, 44010>>, <<44016, 44025>>, <<44032, 55203>>, <<55216, 55238>>,
    <<55243, 55291>>, <<63744, 64109>>, <<64112, 64217>>, <<64256, 64262>>,
    <<64275, 64279>>, <<64285, 64296>>, <<64298, 64310>>, <<64312, 64316>>,
    <<64318, 64318>>, <<64320, 64321>>, <<64323, 64324>>, <<64326, 64433>>,
    <<64467, 64829>>, <<64848, 64911>>, <<64914, 64967>>, <<65008, 65019>>,
    <<65136, 65140>>, <<65142, 65276>>, <<65296, 65305>>, <<65313, 65338>>,
    <<65345, 65370>>, <<65382, 65470>>, <<65474, 65479>>, <<65482, 65487>>,
    <<65490, 65495>>, <<65498, 65500>>, <<65536, 65547>>, <<65549, 65574>>,
    <<65576, 65594>>, <<65596, 65597>>, <<65599, 65613>>, <<65616, 65629>>,
    <<65664, 65786>>, <<65799, 65843>>, <<65856, 65912>>, <<65930, 65931>>,
    <<66176, 66204>>, <<66208, 66256>>, <<66273, 66299>>, <<66304, 66339>>,
    <<66349, 66378>>, <<66384, 66426>>, <<66432, 66461>>, <<66464, 66499>>,
    <<66504, 66511>>, <<66513, 66517>>, <<66560, 66717>>, <<66720, 66729>>,
    <<66736, 66771>>, <<66776, 66811>>, <<66816, 66855>>, <<66864, 66915>>,
    <<66928, 66938>>, <<66940, 66954>>, <<66956, 66962>>, <<66964, 66965>>,
    <<66967, 66977>>, <<66979, 66993>>, <<66995, 67001>>, <<67003, 67004>>,
    <<67008, 67059>>, <<67072, 67382>>, <<67392, 67413>>, <<67424, 67431>>,
    <<67456, 67461>>, <<67463, 67504>>, <<67506, 67514>>, <<67584, 67589>>,
    <<67592, 67592>>, <<67594, 67637>>, <<67639, 67640>>, <<67644, 67644>>,
    <<67647, 67669>>, <<67672, 67702>>, <<67705, 67742>>, <<67751, 67759>>,
    <<67808, 67826>>, <<67828, 67829>>, <<67835, 67867>>, <<67872, 67897>>,
    <<67904, 67929>>, <<67968, 68023>>, <<68028, 68047>>, <<68050, 68099>>,
    <<68101, 68102>>, <<68108, 68115>>, <<68117, 68119>>, <<68121, 68149>>,
    <<68160, 68168>>, <<68192, 68222>>, <<68224, 68255>>, <<68288, 68295>>,
    <<68297, 68324>>, <<68331, 68335>>, <<68352, 68405>>, <<68416, 68437>>,
    <<68440, 68466>>, <<68472, 68497>>, <<68521, 68527>>, <<68608, 68680>>,
    <<68736, 68786>>, <<68800, 68850>>, <<68858, 68903>>, <<68912, 68921>>,
    <<68928, 68965>>, <<68969, 68969>>, <<68975, 68997>>, <<69216, 69246>>,
    <<69248, 69289>>, <<69291, 69292>>, <<69296, 69297>>, <<69314, 69319>>,
    <<69370, 69372>>, <<69376, 69415>>, <<69424, 69445>>, <<69457, 69460>>,
    <<69488, 69505>>, <<69552, 69579>>, <<69600, 69622>>, <<69632, 69701>>,
    <<69714, 69743>>, <<69745, 69749>>, <<69760, 69816>>, <<69826, 69826>>,
    <<69840, 69864>>, <<69872, 69881>>, <<69888, 69938>>, <<69942, 69951>>,
    <<69956, 69959>>, <<69968, 70002>>, <<70006, 70006>>, <<70016, 70079>>,
    <<70081, 70084>>, <<70094, 70106>>, <<70108, 70108>>, <<70113, 70132>>,
    <<70144, 70161>>, <<70163, 70196>>, <<70199, 70199>>, <<70206, 70209>>,
    <<70272, 70278>>, <<70280, 70280>>, <<70282, 70285>>, <<70287, 70301>>,
    <<70303, 70312>>, <<70320, 70376>>, <<70384, 70393>>, <<70400, 70403>>,
    <<70405, 70412>>, <<70415, 70416>>, <<70419, 70440>>, <<70442, 70448>>,
    <<70450, 70451>>, <<70453, 70457>>, <<70461, 70468>>, <<70471, 70472>>,
    <<70475, 70476>>, <<70480, 70480>>, <<70487, 70487>>, <<70493, 70499>>,
    <<70528, 70537>>, <<70539, 70539>>, <<70542, 70542>>, <<70544, 70581>>,
    <<70583, 70592>>, <<70594, 70594>>, <<70597, 70597>>, <<70599, 70602>>,
    <<70604, 70605>>, <<70609, 70609>>, <<70611, 70611>>, <<70656, 70721>>,
    <<70723, 70725>>, <<70727, 70730>>, <<70736, 70745>>, <<70751, 70753>>,
    <<70784, 70849>>, <<70852, 70853>>, <<70855, 70855>>, <<70864, 70873>>,
    <<71040, 71093>>, <<71096, 71102>>, <<71128, 71133>>, <<71168, 71230>>,
    <<71232, 71232>>, <<71236, 71236>>, <<71248, 71257>>, <<71296, 71349>>,
    <<71352, 71352>>, <<71360, 71369>>, <<71376, 71395>>, <<71424, 71450>>,
    <<71453, 71466>>, <<71472, 71483>>, <<71488, 71494>>, <<71680, 71736>>,
    <<71840, 71922>>, <<71935, 71942>>, <<71945, 71945>>, <<71948, 71955>>,
    <<71957, 71958>>, <<71960, 71989>>, <<71991, 71992>>, <<71995, 71996>>,
    <<71999, 72002>>, <<72016, 72025>>, <<72096, 72103>>, <<72106, 72151>>,
    <<72154, 72159>>, <<72161, 72161>>, <<72163, 72164>>, <<72192, 72242>>,
    <<72245, 72254>>, <<72272, 72343>>, <<72349, 72349>>, <<72368, 72440>>,
    <<72544, 72551>>, <<72640, 72672>>, <<72688, 72697>>, <<72704, 72712>>,
    <<72714, 72758>>, <<72760, 72766>>, <<72768, 72768>>, <<72784, 72812>>,
    <<72818, 72847>>, <<72850, 72871>>, <<72873, 72886>>, <<72960, 72966>>,
    <<72968, 72969>>, <<72971, 73014>>, <<73018, 73018>>, <<73020, 73021>>,
    <<73023, 73025>>, <<73027, 73027>>, <<73030, 73031>>, <<73040, 73049>>,
    <<73056, 73061>>, <<73063, 73064>>, <<73066, 73102>>, <<73104, 73105>>,
    <<73107, 73110>>, <<73112, 73112>>, <<73120, 73129>>, <<73136, 73179>>,
    <<73184, 73193>>, <<73440, 73462>>, <<73472, 73488>>, <<73490, 73530>>,
    <<73534, 73536>>, <<73552, 73561>>, <<73648, 73648>>, <<73664, 73684>>,
    <<73728, 74649>>, <<74752, 74862>>, <<74880, 75075>>, <<77712, 77808>>,
    <<77824, 78895>>, <<78913, 78918>>, <<78944, 82938>>, <<82944, 83526>>,
    <<90368, 90414>>, <<90416, 90425>>, <<92160, 92728>>, <<92736, 92766>>,
    <<92768, 92777>>, <<92784, 92862>>, <<92864, 92873>>, <<92880, 92909>>,
    <<92928, 92975>>, <<92992, 92995>>, <<93008, 93017>>, <<93019, 93025>>,
    <<93027, 93047>>, <<93053, 93071>>, <<93504, 93548>>, <<93552, 93561>>,
    <<93760, 93846>>, <<93856, 93880>>, <<93883, 93907>>, <<93952, 94026>>,
    <<94031, 94087>>, <<94095, 94111>>, <<94176, 94177>>, <<94179, 94179>>,
    <<94192, 94198>>, <<94208, 101589>>, <<101631, 101662>>,
    <<101760, 101874>>, <<110576, 110579>>, <<110581, 110587>>,
    <<110589, 110590>>, <<110592, 110882>>, <<110898, 110898>>,
    <<110928, 110930>>, <<110933, 110933>>, <<110948, 110951>>,
    <<110960, 111355>>, <<113664, 113770>>, <<113776, 113788>>,
    <<113792, 113800>>, <<113808, 113817>>, <<113822, 113822>>,
    <<118000, 118009>>, <<119488, 119507>>, <<119520, 119539>>,
    <<119648, 119672>>, <<119808, 119892>>, <<119894, 119964>>,
    <<119966, 119967>>, <<119970, 119970>>, <<119973, 119974>>,
    <<119977, 119980>>, <<119982, 119993>>, <<119995, 119995>>,
    <<119997, 120003>>, <<120005, 120069>>, <<120071, 120074>>,
    <<120077, 120084>>, <<120086, 120092>>, <<120094, 120121>>,
    <<120123, 120126>>, <<120128, 120132>>, <<120134, 120134>>,
    <<120138, 120144>>, <<120146, 120485>>, <<120488, 120512>>,
    <<120514, 120538>>, <<120540, 120570>>, <<120572, 120596>>,
    <<120598, 120628>>, <<120630, 120654>>, <<120656, 120686>>,
    <<120688, 120712>>, <<120714, 120744>>, <<120746, 120770>>,
    <<120772, 120779>>, <<120782, 120831>>, <<122624, 122654>>,
    <<122661, 122666>>, <<122880, 122886>>, <<122888, 122904>>,
    <<122907, 122913>>, <<122915, 122916>>, <<122918, 122922>>,
    <<122928, 122989>>, <<123023, 123023>>, <<123136, 123180>>,
    <<123191, 123197>>, <<123200, 123209>>, <<123214, 123214>>,
    <<123536, 123565>>, <<123584, 123627>>, <<123632, 123641>>,
    <<124112, 124139>>, <<124144, 124153>>, <<124368, 124397>>,
    <<124400, 124410>>, <<124608, 124638>>, <<124640, 124661>>,
    <<124670, 124671>>, <<124896, 124902>>, <<124904, 124907>>,
    <<124909, 124910>>, <<124912, 124926>>, <<124928, 125124>>,
    <<125127, 125135>>, <<125184, 125251>>, <<125255, 125255>>,
    <<125259, 125259>>, <<125264, 125273>>, <<126065, 126123>>,
    <<126125, 126127>>, <<126129, 126132>>, <<126209, 126253>>,
    <<126255, 126269>>, <<126464, 126467>>, <<126469, 126495>>,
    <<126497, 126498>>, <<126500, 126500>>, <<126503, 126503>>,
    <<126505, 126514>>, <<126516, 126519>>, <<126521, 126521>>,
    <<126523, 126523>>, <<126530, 126530>>, <<126535, 126535>>,
    <<126537, 126537>>, <<126539, 126539>>, <<126541, 126543>>,
    <<126545, 126546>>, <<126548, 126548>>, <<126551, 126551>>,
    <<126553, 126553>>, <<126555, 126555>>, <<126557, 126557>>,
    <<126559, 126559>>, <<126561, 126562>>, <<126564, 126564>>,
    <<126567, 126570>>, <<126572, 126578>>, <<126580, 126583>>,
    <<126585, 126588>>, <<126590, 126590>>, <<126592, 126601>>,
    <<126603, 126619>>, <<126625, 126627>>, <<126629, 126633>>,
    <<126635, 126651>>, <<127232, 127244>>, <<127280, 127305>>,
    <<127312, 127337>>, <<127344, 127369>>, <<130032, 130041>>,
    <<131072, 173791>>, <<173824, 178205>>, <<178208, 183981>>,
    <<183984, 191456>>, <<191472, 192093>>, <<194560, 195101>>,
    <<196608, 201546>>, <<201552, 210041>>
    >>

\* char::is_alphanumeric (scanner.rs:308): is_alphabetic() || is_numeric()
IsAlphanumeric(ch) ==
    \/ ch \in Ch("0")..Ch("9")
    \/ ch \in Ch("a")..Ch("z")
    \/ ch \in Ch("A")..Ch("Z")
    \/ /\ ch > 127
       /\ \E i \in 1..Len(AlphanumericRanges) :
            AlphanumericRanges[i][1] <= ch /\ ch <= AlphanumericRanges[i][2]

DigitValue(ch) ==
    IF ch \in Ch("0")..Ch("9") THEN ch - Ch("0")
    ELSE IF ch \in Ch("a")..Ch("f") THEN ch - Ch("a") + 10
    ELSE ch - Ch("A") + 10

RECURSIVE FromStrRadix(_, _)
FromStrRadix(digits, radix) ==
    IF digits = <<>> THEN 0
    ELSE FromStrRadix(SubSeq(digits, 1, Len(digits) - 1), radix) * radix
            + DigitValue(digits[Len(digits)])

Tail1(q) == SubSeq(q, 2, Len(q))
Front(q) == SubSeq(q, 1, Len(q) - 1)

(***************************************************************************)
(* Tokens (scanner.rs:26-66).                                              *)
(***************************************************************************)
Token(kind, val) == [kind |-> kind, val |-> val]
Bracket(side) == Token("Bracket", side)
Identifier(text) == Token("Identifier", text)
StringLiteral(text) == Token("StringLiteral", text)
Number(value) == Token("Number", value)
Semicolon == Token("Semicolon", <<>>)
Colon == Token("Colon", <<>>)
Assignment == Token("Assignment", <<>>)
Range == Token("Range", <<>>)
Operator(op) == Token("Operator", op)
KeyWord(kw) == Token("KeyWord", kw)

(***************************************************************************)
(* The scanner (scanner.rs:93-358).  A scanner value `s` holds the fields  *)
(* of struct Scanner and `panicked`, set when a handler panics.            *)
(***************************************************************************)
\* Scanner::new (scanner.rs:95-103)
Scanner_new ==
    [tokens |-> <<>>,
     scan_mode |-> "Normal",
     buffer |-> <<>>,
     escape_buffer |-> <<>>,
     block_comment_counter |-> 0,
     panicked |-> FALSE]

\* panic!, expect and unreachable!: the call unwinds
Panic(s) == [s EXCEPT !.panicked = TRUE]

\* self.tokens.push(tok)
PushToken(s, tok) == [s EXCEPT !.tokens = Append(@, tok)]

\* normal_scan (scanner.rs:124-162)
normal_scan(s, ch) ==
    CASE ch = Ch("(") -> PushToken(s, Bracket("Left"))
      [] ch = Ch(")") -> PushToken(s, Bracket("Right"))
      [] ch = Ch(";") -> PushToken(s, Semicolon)
      [] ch = Ch(":") -> PushToken(s, Colon)
      [] ch = Ch("+") -> PushToken(s, Operator("Plus"))
      [] ch = Ch("-") -> PushToken(s, Operator("Minus"))
      [] ch = Ch("*") -> PushToken(s, Operator("Multiply"))
      [] ch = Ch("<") -> PushToken(s, Operator("LessThan"))
      [] ch = Ch("=") -> PushToken(s, Operator("Equals"))
      [] ch = Ch("&") -> PushToken(s, Operator("And"))
      [] ch = Ch("!") -> PushToken(s, Operator("Not"))
      [] ch = Ch("\"") -> [s EXCEPT !.scan_mode = "StringLiteral"]
      [] ch = Ch("/") -> [s EXCEPT !.scan_mode = "PossibleComment"]
      [] IsDigit(ch) ->
            [s EXCEPT !.buffer = Append(@, ch), !.scan_mode = "Number"]
      [] ch \in {Ch(" "), LF, TAB, CR} -> s
      [] OTHER ->
            [s EXCEPT !.buffer = Append(@, ch), !.scan_mode = "Other"]

\* string_scan (scanner.rs:164-185)
string_scan(s, ch) ==
    CASE ch = Ch("\\") -> [s EXCEPT !.scan_mode = "Escape"]
      [] ch = Ch("\"") ->
            [s EXCEPT !.tokens = Append(@, StringLiteral(s.buffer)),
                      !.buffer = <<>>,
                      !.scan_mode = "Normal"]
      [] OTHER -> [s EXCEPT !.buffer = Append(@, ch)]

\* the single-character escapes (scanner.rs:190-198)
EscapedChar(ch) ==
    CASE ch = Ch("a") -> 7
      [] ch = Ch("b") -> 8
      [] ch = Ch("f") -> 12
      [] ch = Ch("n") -> LF
      [] ch = Ch("r") -> CR
      [] ch = Ch("t") -> TAB
      [] ch = Ch("v") -> 11
      [] OTHER -> ch

IsSingleEscape(ch) ==
    ch \in {Ch("a"), Ch("b"), Ch("f"), Ch("n"), Ch("r"), Ch("t"), Ch("v"),
            Ch("\\"), Ch("'"), Ch("\""), Ch("?")}

\* std::char::from_u32 of u32::from_str_radix(digits, 16): the code point,
\* or -1 for a surrogate or a value above 0x10FFFF (scanner.rs:261-263).
\* More than six digits with a nonzero leading one exceed 0x10FFFF.
from_u32(digits) ==
    LET k == Len(digits)
        high == SubSeq(digits, 1, k - 6)
        low == SubSeq(digits, (IF k > 6 THEN k - 5 ELSE 1), k)
        v == FromStrRadix(low, 16)
    IN  IF \E i \in 1..Len(high) : DigitValue(high[i]) # 0 THEN -1
        ELSE IF v \in 55296..57343 THEN -1
        ELSE IF v > 1114111 THEN -1
        ELSE v

\* escape_scan (scanner.rs:187-271)
escape_scan(s, ch) ==
    IF s.escape_buffer = <<>> THEN
        IF IsSingleEscape(ch) THEN
            [s EXCEPT !.buffer = Append(@, EscapedChar(ch)),
                      !.escape_buffer = <<>>,
                      !.scan_mode = "StringLiteral"]
        ELSE IF ch \in Ch("0")..Ch("8") \/ ch \in {Ch("x"), Ch("U"), Ch("u")} THEN
            [s EXCEPT !.escape_buffer = Append(@, ch)]
        ELSE Panic(s)
    ELSE
        LET first == s.escape_buffer[1] IN
        CASE first = Ch("x") ->
                IF IsHexDigit(ch) THEN
                    IF Len(s.escape_buffer) > 2 THEN Panic(s)
                    ELSE [s EXCEPT !.escape_buffer = Append(@, ch)]
                ELSE
                    IF Len(s.escape_buffer) < 2 THEN Panic(s)
                    ELSE
                        LET chr == FromStrRadix(Tail1(s.escape_buffer), 16)
                            s1 == [s EXCEPT !.buffer = Append(@, chr),
                                            !.escape_buffer = <<>>]
                        IN  IF ch = Ch("\"") THEN
                                [s1 EXCEPT
                                    !.tokens = Append(@, StringLiteral(s1.buffer)),
                                    !.buffer = <<>>,
                                    !.scan_mode = "Normal"]
                            ELSE [s1 EXCEPT !.scan_mode = "StringLiteral"]
          [] first \in {Ch("U"), Ch("u")} ->
                IF ~IsHexDigit(ch) THEN Panic(s)
                ELSE
                    LET s1 == [s EXCEPT !.escape_buffer = Append(@, ch)]
                        max_buffer_len ==
                            (IF first = Ch("U") THEN 8 ELSE 4) + 1
                    IN  IF Len(s1.escape_buffer) = max_buffer_len THEN
                            LET chr == from_u32(Tail1(s1.escape_buffer)) IN
                            IF chr < 0 THEN Panic(s1)
                            ELSE [s1 EXCEPT !.buffer = Append(@, chr)]
                        ELSE s1
          [] OTHER -> Panic(s)

\* str::parse::<BigInt> of the buffer (scanner.rs:278-281): fails on a
\* character that is not a decimal digit
ParsesAsNumber(text) == \A i \in 1..Len(text) : IsDigit(text[i])

\* number_scan (scanner.rs:273-288)
number_scan(s, ch) ==
    IF IsDigit(ch) THEN [s EXCEPT !.buffer = Append(@, ch)]
    ELSE IF ~ParsesAsNumber(s.buffer) THEN Panic(s)
    ELSE normal_scan(
            [s EXCEPT !.tokens = Append(@, Number(FromStrRadix(s.buffer, 10))),
                      !.buffer = <<>>,
                      !.scan_mode = "Normal"],
            ch)

\* the reserved words matched by eval_buffer (scanner.rs:292-302)
KeyWordTable ==
    {<<Str(<<"v", "a", "r">>), "Var">>,
     <<Str(<<"e", "n", "d">>), "End">>,
     <<Str(<<"f", "o", "r">>), "For">>,
     <<Str(<<"i", "n">>), "In">>,
     <<Str(<<"d", "o">>), "Do">>,
     <<Str(<<"r", "e", "a", "d">>), "Read">>,
     <<Str(<<"p", "r", "i", "n", "t">>), "Print">>,
     <<Str(<<"i", "n", "t">>), "Int">>,
     <<Str(<<"s", "t", "r", "i", "n", "g">>), "String">>,
     <<Str(<<"b", "o", "o", "l">>), "Bool">>,
     <<Str(<<"a", "s", "s", "e", "r", "t">>), "Assert">>}

\* the token eval_buffer builds from a text (scanner.rs:291-304)
WordToken(text) ==
    IF \E e \in KeyWordTable : e[1] = text
    THEN KeyWord((CHOOSE e \in KeyWordTable : e[1] = text)[2])
    ELSE Identifier(text)

\* eval_buffer (scanner.rs:290-305)
eval_buffer(s) == PushToken(s, WordToken(s.buffer))

\* identifier_and_keyword_scan (scanner.rs:307-315)
identifier_and_keyword_scan(s, ch) ==
    IF IsAlphanumeric(ch) \/ ch = Ch("_") THEN
        [s EXCEPT !.buffer = Append(@, ch)]
    ELSE normal_scan([eval_buffer(s) EXCEPT !.scan_mode = "Normal"], ch)

\* check_for_comment with the block comment entered but not counted
check_for_comment_no_count(s, ch) ==
    CASE ch = Ch("/") -> [s EXCEPT !.scan_mode = "LineComment"]
      [] ch = Ch("*") -> [s EXCEPT !.scan_mode = "BlockComment"]
      [] OTHER ->
            [PushToken(s, Operator("Divide")) EXCEPT !.scan_mode = "Normal"]

\* check_for_comment (scanner.rs:317-329)
check_for_comment(s, ch) ==
    CASE ch = Ch("/") -> [s EXCEPT !.scan_mode = "LineComment"]
      [] ch = Ch("*") ->
            [s EXCEPT !.block_comment_counter = @ + 1,
                      !.scan_mode = "BlockComment"]
      [] OTHER ->
            [PushToken(s, Operator("Divide")) EXCEPT !.scan_mode = "Normal"]

\* block_comment_handling (scanner.rs:331-351).  `-= 1` on a usize of 0
\* panics (overflow checks on).
block_comment_handling(s, ch) ==
    IF ch = Ch("*") \/ ch = Ch("/") THEN
        LET popped == IF s.buffer = <<>> THEN <<>>
                      ELSE <<s.buffer[Len(s.buffer)]>>
            rest == IF s.buffer = <<>> THEN <<>> ELSE Front(s.buffer)
            buf == IF popped # <<ch>> THEN Append(rest \o popped, ch) ELSE rest
        IN  IF buf = Str(<<"/", "*">>) THEN
                [s EXCEPT !.block_comment_counter = @ + 1, !.buffer = <<>>]
            ELSE IF buf = Str(<<"*", "/">>) THEN
                IF s.block_comment_counter = 0 THEN Panic(s)
                ELSE [s EXCEPT
                        !.block_comment_counter = @ - 1,
                        !.buffer = <<>>,
                        !.scan_mode =
                            IF s.block_comment_counter - 1 = 0
                            THEN "Normal" ELSE s.scan_mode]
            ELSE [s EXCEPT !.buffer = buf]
    ELSE [s EXCEPT !.buffer = <<>>]

\* line_comment_handling (scanner.rs:353-357)
line_comment_handling(s, ch) ==
    IF ch = LF THEN [s EXCEPT !.scan_mode = "Normal"] ELSE s

\* one iteration of the loop of scan (scanner.rs:109-120)
scan_char(s, ch) ==
    CASE s.scan_mode = "Normal" -> normal_scan(s, ch)
      [] s.scan_mode = "StringLiteral" -> string_scan(s, ch)
      [] s.scan_mode = "Number" -> number_scan(s, ch)
      [] s.scan_mode = "PossibleComment" -> check_for_comment(s, ch)
      [] s.scan_mode = "LineComment" -> line_comment_handling(s, ch)
      [] s.scan_mode = "BlockComment" -> block_comment_handling(s, ch)
      [] s.scan_mode = "Other" -> identifier_and_keyword_scan(s, ch)
      [] s.scan_mode = "Escape" -> escape_scan(s, ch)

\* the loop of scan over a text, stopped by a panic (scanner.rs:105-122)
RECURSIVE scan_text(_, _)
scan_text(s, text) ==
    IF text = <<>> \/ s.panicked THEN s
    ELSE scan_text(scan_char(s, text[1]), Tail1(text))

(***************************************************************************)
(* The scan loop as a state machine: each step hands the next character of *)
(* the source to the handler of the current mode.  The source is any text  *)
(* over Chars of at most MaxLen characters.                                *)
(***************************************************************************)
Chars ==
    {Ch(" "), LF, Ch(";"), Ch("/"), Ch("*"), Ch("\""), Ch("\\"),
     Ch("4"), Ch("x"), Ch("d"), Ch("o"), Ch("u"), EACUTE}

\* inside an escape the source may also hold "U" and "0"
EscapeChars == Chars \cup {Ch("U"), Ch("0")}

\* beyond MaxLen an escape is completed by zeros and the closing quote
EscapeTail == {Ch("0"), Ch("\"")}

ScanRunning == ~scanner.panicked /\ ~scan_returned

\* history of the word being read: Other mode is entered by normal_scan with
\* the character that starts the word and left by the first other character
WordAfter(s2, ch) ==
    IF s2.scan_mode # "Other" \/ s2.panicked THEN <<>>
    ELSE IF scanner.scan_mode = "Other" /\ (IsAlphanumeric(ch) \/ ch = Ch("_"))
         THEN Append(word, ch)
    ELSE <<ch>>

\* history of the comment nesting by the textual rule: inside a block
\* comment "/" "*" opens a level and "*" "/" closes one, pairs read left to
\* right, no character used by two pairs
CommentAfter(ch) ==
    IF scanner.scan_mode = "PossibleComment" /\ ch = Ch("*") THEN
        [depth |-> 1, prev |-> 0, clean |-> scanner.buffer = <<>>]
    ELSE IF scanner.scan_mode = "BlockComment" /\ gdepth > 0 THEN
        IF gprev = Ch("/") /\ ch = Ch("*") THEN
            [depth |-> gdepth + 1, prev |-> 0, clean |-> gclean]
        ELSE IF gprev = Ch("*") /\ ch = Ch("/") THEN
            [depth |-> gdepth - 1, prev |-> 0, clean |-> gclean]
        ELSE
            [depth |-> gdepth,
             prev |-> IF ch \in {Ch("/"), Ch("*")} THEN ch ELSE 0,
             clean |-> gclean]
    ELSE [depth |-> gdepth, prev |-> gprev, clean |-> gclean]

Consume(s2, ch) ==
    /\ scanner' = s2
    /\ c' = ch
    /\ n' = n + 1
    /\ source' = Append(source, ch)
    /\ word' = WordAfter(s2, ch)
    /\ gdepth' = CommentAfter(ch).depth
    /\ gprev' = CommentAfter(ch).prev
    /\ gclean' = CommentAfter(ch).clean
    /\ UNCHANGED <<scan_returned, returned, parse_vars, chan_vars>>

Feed(s2, ch) == n < MaxLen /\ Consume(s2, ch)

\* a character of a multi-character escape the source ends in
FeedTail(s2, ch) ==
    /\ n >= MaxLen
    /\ scanner.escape_buffer # <<>>
    /\ Len(scanner.escape_buffer) <= MaxEsc
    /\ Consume(s2, ch)

ScanNormal ==
    /\ ScanRunning /\ scanner.scan_mode = "Normal"
    /\ \E ch \in Chars : Feed(normal_scan(scanner, ch), ch)

ScanStringLiteral ==
    /\ ScanRunning /\ scanner.scan_mode = "StringLiteral"
    /\ \E ch \in Chars : Feed(string_scan(scanner, ch), ch)

ScanNumber ==
    /\ ScanRunning /\ scanner.scan_mode = "Number"
    /\ \E ch \in Chars : Feed(number_scan(scanner, ch), ch)

ScanPossibleComment ==
    /\ ScanRunning /\ scanner.scan_mode = "PossibleComment"
    /\ \E ch \in Chars : Feed(check_for_comment(scanner, ch), ch)

ScanLineComment ==
    /\ ScanRunning /\ scanner.scan_mode = "LineComment"
    /\ \E ch \in Chars : Feed(line_comment_handling(scanner, ch), ch)

ScanBlockComment ==
    /\ ScanRunning /\ scanner.scan_mode = "BlockComment"
    /\ \E ch \in Chars : Feed(block_comment_handling(scanner, ch), ch)

ScanOther ==
    /\ ScanRunning /\ scanner.scan_mode = "Other"
    /\ \E ch \in Chars : Feed(identifier_and_keyword_scan(scanner, ch), ch)

ScanEscape ==
    /\ ScanRunning /\ scanner.scan_mode = "Escape"
    /\ \/ \E ch \in EscapeChars : Feed(escape_scan(scanner, ch), ch)
       \/ \E ch \in EscapeTail : FeedTail(escape_scan(scanner, ch), ch)

\* the source is exhausted: scan returns self.tokens.clone() (scanner.rs:121)
ScanReturn ==
    /\ ScanRunning
    /\ scan_returned' = TRUE
    /\ returned' = Append(returned, scanner.tokens)
    /\ UNCHANGED <<scanner, c, n, source, word, gdepth, gprev, gclean,
                   parse_vars, chan_vars>>

\* scan is called again on the same Scanner with the same source: the loop
\* runs over the whole source from the fields the last call left, and the
\* call returns self.tokens.clone() unless it panics (scanner.rs:105-122)
ScanAgain ==
    /\ scan_returned /\ ~scanner.panicked
    /\ Len(returned) < MaxCalls
    /\ scanner' = scan_text(scanner, source)
    /\ returned' = IF scanner'.panicked THEN returned
                   ELSE Append(returned, scanner'.tokens)
    /\ UNCHANGED <<c, n, scan_returned, source, word, gdepth, gprev, gclean,
                   parse_vars, chan_vars>>

\* the scan loop on the longer texts over the characters that open, fill
\* and close comments, words and strings: one iteration hands the next
\* character to the handler of the current mode (scanner.rs:109-120)
CommentChars == {Ch("/"), Ch("*"), Ch("x"), LF, Ch("\"")}

ScanStep ==
    /\ ScanRunning
    /\ n < MaxCommentLen
    /\ \E ch \in CommentChars : Consume(scan_char(scanner, ch), ch)

CommentNext ==
    \/ ScanStep
    \/ ScanReturn
    \/ ScanAgain

ScanNext ==
    \/ ScanNormal
    \/ ScanStringLiteral
    \/ ScanNumber
    \/ ScanPossibleComment
    \/ ScanLineComment
    \/ ScanBlockComment
    \/ ScanOther
    \/ ScanEscape
    \/ ScanReturn
    \/ ScanAgain

(***************************************************************************)
(* The AST (parser/mod.rs:18-78).                                          *)
(***************************************************************************)
StmtAssignment(name, expression) ==
    [stmt |-> "Assignment", name |-> name, expression |-> expression]
StmtFor(name, from, to, body) ==
    [stmt |-> "For", name |-> name, from |-> from, to |-> to, body |-> body]
StmtRead(name) == [stmt |-> "Read", name |-> name]
NoStatement == [stmt |-> "None"]

ExprSingleton(operand) == [expr |-> "Singleton", operand |-> operand]
OperandInt(value) == [operand |-> "Int", value |-> value]

(***************************************************************************)
(* The parser (parser/mod.rs:80-328).  A parser value `p` holds the fields *)
(* of struct Parser (`statements` is the sink, a Vec<Statement>), `state`  *)
(* (the State the handler returns), `panicked`, and two history fields:    *)
(* `emitted`, the statement handed to handle_statement in the last step,   *)
(* and `trace`, the loops opened and closed and the statements completed   *)
(* so far, in the order of the token stream.                               *)
(***************************************************************************)
\* Parser::new and the initial State of parse (parser/mod.rs:128-135, 96)
Parser_new ==
    [buffer |-> <<>>,
     for_buffer |-> <<>>,
     for_range_pointer |-> 0,
     statements |-> <<>>,
     state |-> "normal_parse",
     panicked |-> FALSE,
     emitted |-> NoStatement,
     trace |-> <<>>]

DoEvent(name) == [ev |-> "do", name |-> name, st |-> NoStatement]
EndEvent == [ev |-> "end", name |-> <<>>, st |-> NoStatement]
StmtEvent(statement) == [ev |-> "stmt", name |-> <<>>, st |-> statement]

\* history: `statement` was handed to handle_statement
Completed(p, statement, event) ==
    [p EXCEPT !.emitted = statement, !.trace = Append(@, event)]

GoTo(p, state) == [p EXCEPT !.state = state]

\* parse_expression (parser/mod.rs:308-310)
parse_expression(tokens) == ExprSingleton(OperandInt(1))

\* a slice buffer[from..to] (0-based, end exclusive) is in bounds
SliceOk(q, from, to) == from <= to /\ to <= Len(q)
Slice(q, from, to) == SubSeq(q, from + 1, to)

\* handle_statement with the statement appended to the first frame
handle_statement_first(p, statement) ==
    IF p.for_buffer = <<>> THEN
        [p EXCEPT !.statements = Append(@, statement), !.buffer = <<>>]
    ELSE
        [p EXCEPT !.for_buffer[1][4] = Append(@, statement), !.buffer = <<>>]

\* handle_statement with every statement put into the sink
handle_statement_sink(p, statement) ==
    [p EXCEPT !.statements = Append(@, statement), !.buffer = <<>>]

\* handle_statement without the final self.buffer.clear()
handle_statement_keep_buffer(p, statement) ==
    IF p.for_buffer = <<>> THEN
        [p EXCEPT !.statements = Append(@, statement)]
    ELSE
        [p EXCEPT !.for_buffer[Len(p.for_buffer)][4] = Append(@, statement)]

\* handle_statement (parser/mod.rs:312-320)
handle_statement(p, statement) ==
    IF p.for_buffer = <<>> THEN
        [p EXCEPT !.statements = Append(@, statement), !.buffer = <<>>]
    ELSE
        LET len == Len(p.for_buffer) - 1 IN
        [p EXCEPT !.for_buffer[len + 1][4] = Append(@, statement),
                  !.buffer = <<>>]

\* normal_parse (parser/mod.rs:137-157)
normal_parse(p, tk) ==
    CASE tk.kind = "Identifier" ->
            GoTo([p EXCEPT !.buffer = Append(@, tk)], "assignment_parse")
      [] tk.kind = "KeyWord" ->
            CASE tk.val = "Var" -> GoTo(p, "variable_definition_parse")
              [] tk.val = "For" -> GoTo(p, "for_loop_parse")
              [] tk.val = "Read" -> GoTo(p, "read_parse")
              [] tk.val = "Print" -> GoTo(p, "print_parse")
              [] tk.val = "Assert" -> GoTo(p, "assert_parse")
              [] tk.val = "End" -> GoTo(p, "expect_end_for")
              [] OTHER -> Panic(p)
      [] tk.kind = "Semicolon" -> GoTo(p, "normal_parse")
      [] OTHER -> Panic(p)

\* variable_definition_parse (parser/mod.rs:160-179)
variable_definition_parse(p, tk) ==
    CASE Len(p.buffer) = 0 ->
            IF tk.kind = "Identifier"
            THEN GoTo([p EXCEPT !.buffer = Append(@, tk)],
                      "variable_definition_parse")
            ELSE Panic(p)
      [] Len(p.buffer) = 1 ->
            IF tk.kind = "Colon"
            THEN GoTo([p EXCEPT !.buffer = Append(@, tk)],
                      "variable_definition_parse")
            ELSE Panic(p)
      [] Len(p.buffer) = 2 ->
            IF tk.kind = "KeyWord" /\ tk.val \in {"String", "Int"}
            THEN GoTo([p EXCEPT !.buffer = Append(@, tk)],
                      "variable_definition_parse")
            ELSE Panic(p)
      [] OTHER -> GoTo(p, "variable_definition_parse")

IsExpressionToken(tk) ==
    tk.kind \in {"Bracket", "Operator", "Identifier", "Number", "StringLiteral"}

\* assignment_parse (parser/mod.rs:181-217)
assignment_parse(p, tk) ==
    IF Len(p.buffer) = 1 THEN
        IF tk.kind = "Assignment"
        THEN GoTo([p EXCEPT !.buffer = Append(@, tk)], "assignment_parse")
        ELSE Panic(p)
    ELSE
        CASE tk.kind = "Semicolon" ->
                IF p.buffer = <<>> \/ ~SliceOk(p.buffer, 2, Len(p.buffer))
                THEN Panic(p)
                ELSE IF p.buffer[1].kind # "Identifier" THEN Panic(p)
                ELSE
                    LET statement ==
                            StmtAssignment(
                                p.buffer[1].val,
                                parse_expression(
                                    Slice(p.buffer, 2, Len(p.buffer))))
                    IN  GoTo(Completed(handle_statement(p, statement),
                                       statement, StmtEvent(statement)),
                             "normal_parse")
          [] IsExpressionToken(tk) ->
                GoTo([p EXCEPT !.buffer = Append(@, tk)], "assignment_parse")
          [] OTHER -> Panic(p)

\* for_loop_parse with a later `..` moving the range pointer
for_loop_parse_second_range(p, tk) ==
    CASE Len(p.buffer) = 0 ->
            IF tk.kind = "Identifier"
            THEN GoTo([p EXCEPT !.buffer = Append(@, tk)], "for_loop_parse")
            ELSE Panic(p)
      [] Len(p.buffer) = 1 ->
            IF tk = KeyWord("In")
            THEN GoTo([p EXCEPT !.buffer = Append(@, tk)], "for_loop_parse")
            ELSE Panic(p)
      [] OTHER ->
            CASE tk = KeyWord("Do") ->
                    IF p.for_range_pointer < 3 THEN Panic(p)
                    ELSE IF p.buffer[1].kind # "Identifier" THEN Panic(p)
                    ELSE IF \/ ~SliceOk(p.buffer, 2, p.for_range_pointer)
                            \/ ~SliceOk(p.buffer, p.for_range_pointer + 1,
                                        Len(p.buffer))
                         THEN Panic(p)
                    ELSE
                        LET identifier == p.buffer[1].val
                            frame ==
                                <<identifier,
                                  parse_expression(
                                    Slice(p.buffer, 2, p.for_range_pointer)),
                                  parse_expression(
                                    Slice(p.buffer, p.for_range_pointer + 1,
                                          Len(p.buffer))),
                                  <<>>>>
                        IN  GoTo([p EXCEPT
                                    !.for_buffer = Append(@, frame),
                                    !.for_range_pointer = 0,
                                    !.buffer = <<>>,
                                    !.trace = Append(@, DoEvent(identifier))],
                                 "normal_parse")
              [] tk.kind = "Range" ->
                    GoTo([p EXCEPT
                            !.for_range_pointer = Len(p.buffer),
                            !.buffer = Append(@, tk)],
                         "for_loop_parse")
              [] IsExpressionToken(tk) ->
                    GoTo([p EXCEPT !.buffer = Append(@, tk)], "for_loop_parse")
              [] OTHER -> Panic(p)

\* for_loop_parse (parser/mod.rs:220-272)
for_loop_parse(p, tk) ==
    CASE Len(p.buffer) = 0 ->
            IF tk.kind = "Identifier"
            THEN GoTo([p EXCEPT !.buffer = Append(@, tk)], "for_loop_parse")
            ELSE Panic(p)
      [] Len(p.buffer) = 1 ->
            IF tk = KeyWord("In")
            THEN GoTo([p EXCEPT !.buffer = Append(@, tk)], "for_loop_parse")
            ELSE Panic(p)
      [] OTHER ->
            CASE tk = KeyWord("Do") ->
                    IF p.for_range_pointer < 3 THEN Panic(p)
                    ELSE IF p.buffer[1].kind # "Identifier" THEN Panic(p)
                    ELSE IF \/ ~SliceOk(p.buffer, 2, p.for_range_pointer)
                            \/ ~SliceOk(p.buffer, p.for_range_pointer + 1,
                                        Len(p.buffer))
                         THEN Panic(p)
                    ELSE
                        LET identifier == p.buffer[1].val
                            frame ==
                                <<identifier,
                                  parse_expression(
                                    Slice(p.buffer, 2, p.for_range_pointer)),
                                  parse_expression(
                                    Slice(p.buffer, p.for_range_pointer + 1,
                                          Len(p.buffer))),
                                  <<>>>>
                        IN  GoTo([p EXCEPT
                                    !.for_buffer = Append(@, frame),
                                    !.for_range_pointer = 0,
                                    !.buffer = <<>>,
                                    !.trace = Append(@, DoEvent(identifier))],
                                 "normal_parse")
              [] tk.kind = "Range" ->
                    IF p.for_range_pointer = 0
                    THEN GoTo([p EXCEPT
                                !.for_range_pointer = Len(p.buffer),
                                !.buffer = Append(@, tk)],
                              "for_loop_parse")
                    ELSE Panic(p)
              [] IsExpressionToken(tk) ->
                    GoTo([p EXCEPT !.buffer = Append(@, tk)], "for_loop_parse")
              [] OTHER -> Panic(p)

\* expect_end_for (parser/mod.rs:274-288)
expect_end_for(p, tk) ==
    IF tk = KeyWord("For") THEN
        IF p.for_buffer = <<>> THEN Panic(p)
        ELSE
            LET popped == p.for_buffer[Len(p.for_buffer)]
                for_statement ==
                    StmtFor(popped[1], popped[2], popped[3], popped[4])
                p1 == [p EXCEPT !.for_buffer = Front(@)]
            IN  GoTo(Completed(handle_statement(p1, for_statement),
                               for_statement, EndEvent),
                     "expect_semicolon")
    ELSE Panic(p)

\* read_parse (parser/mod.rs:291-297)
read_parse(p, tk) ==
    IF tk.kind = "Identifier" THEN
        LET statement == StmtRead(tk.val) IN
        GoTo(Completed(handle_statement(p, statement),
                       statement, StmtEvent(statement)),
             "normal_parse")
    ELSE Panic(p)

\* print_parse (parser/mod.rs:300-302)
print_parse(p, tk) == GoTo(p, "print_parse")

\* assert_parse (parser/mod.rs:304-306)
assert_parse(p, tk) == GoTo(p, "assert_parse")

\* expect_semicolon with any token accepted
expect_semicolon_any(p, tk) == GoTo(p, "normal_parse")

\* expect_semicolon (parser/mod.rs:322-327)
expect_semicolon(p, tk) ==
    IF tk.kind = "Semicolon" THEN GoTo(p, "normal_parse") ELSE Panic(p)

(***************************************************************************)
(* parse as a state machine (parser/mod.rs:90-100): each step takes the    *)
(* next token from the source and hands it to the handler of the current   *)
(* State.  The source is any token sequence over ParserTokens that keeps   *)
(* the token buffer and the number of statements within the bounds.        *)
(***************************************************************************)
KeyWords ==
    {"Var", "For", "End", "In", "Do", "Read", "Print", "Int", "String",
     "Bool", "Assert"}

ParserTokens ==
    {Identifier(Str(<<"x">>)), Number(5), Operator("Plus"),
     Semicolon, Colon, Assignment, Range}
    \cup {KeyWord(kw) : kw \in KeyWords}

ParseRunning == ~parser.panicked /\ ~parse_returned

Take(p2, tk) ==
    /\ parser' = p2
    /\ Len(parser'.buffer) <= MaxBuf
    /\ routed' = IF parser'.emitted # NoStatement THEN routed + 1 ELSE routed
    /\ routed' + Len(parser'.for_buffer) <= MaxStmts
    /\ t' = tk
    /\ UNCHANGED <<parse_returned, scan_vars, chan_vars>>

\* the parser as the handler receives it: nothing emitted in this step yet
Fresh == [parser EXCEPT !.emitted = NoStatement]

NormalParse ==
    /\ ParseRunning /\ parser.state = "normal_parse"
    /\ \E tk \in ParserTokens : Take(normal_parse(Fresh, tk), tk)

VariableDefinitionParse ==
    /\ ParseRunning /\ parser.state = "variable_definition_parse"
    /\ \E tk \in ParserTokens : Take(variable_definition_parse(Fresh, tk), tk)

AssignmentParse ==
    /\ ParseRunning /\ parser.state = "assignment_parse"
    /\ \E tk \in ParserTokens : Take(assignment_parse(Fresh, tk), tk)

ForLoopParse ==
    /\ ParseRunning /\ parser.state = "for_loop_parse"
    /\ \E tk \in ParserTokens : Take(for_loop_parse(Fresh, tk), tk)

ExpectEndFor ==
    /\ ParseRunning /\ parser.state = "expect_end_for"
    /\ \E tk \in ParserTokens : Take(expect_end_for(Fresh, tk), tk)

ReadParse ==
    /\ ParseRunning /\ parser.state = "read_parse"
    /\ \E tk \in ParserTokens : Take(read_parse(Fresh, tk), tk)

PrintParse ==
    /\ ParseRunning /\ parser.state = "print_parse"
    /\ \E tk \in ParserTokens : Take(print_parse(Fresh, tk), tk)

AssertParse ==
    /\ ParseRunning /\ parser.state = "assert_parse"
    /\ \E tk \in ParserTokens : Take(assert_parse(Fresh, tk), tk)

ExpectSemicolon ==
    /\ ParseRunning /\ parser.state = "expect_semicolon"
    /\ \E tk \in ParserTokens : Take(expect_semicolon(Fresh, tk), tk)

\* tokens.take() returns None: the while loop ends and parse returns
\* (parser/mod.rs:97-100)
ParseReturn ==
    /\ ParseRunning
    /\ parse_returned' = TRUE
    /\ UNCHANGED <<parser, t, routed, scan_vars, chan_vars>>

ParseNext ==
    \/ NormalParse
    \/ VariableDefinitionParse
    \/ AssignmentParse
    \/ ForLoopParse
    \/ ExpectEndFor
    \/ ReadParse
    \/ PrintParse
    \/ AssertParse
    \/ ExpectSemicolon
    \/ ParseReturn

(***************************************************************************)
(* parse fed through a channel (util.rs:35-39, 58-62): a producer thread   *)
(* puts tokens into a Sender<Token> and drops it when it has finished,     *)
(* while parse takes them from the Receiver<Token>; the thread running     *)
(* parse drops the Receiver once parse has returned or panicked.           *)
(***************************************************************************)
\* state(&mut parser, t): the handler of the current State (parser/mod.rs:98)
parse_token(p, tk) ==
    CASE p.state = "normal_parse" -> normal_parse(p, tk)
      [] p.state = "variable_definition_parse" ->
            variable_definition_parse(p, tk)
      [] p.state = "assignment_parse" -> assignment_parse(p, tk)
      [] p.state = "for_loop_parse" -> for_loop_parse(p, tk)
      [] p.state = "expect_end_for" -> expect_end_for(p, tk)
      [] p.state = "read_parse" -> read_parse(p, tk)
      [] p.state = "print_parse" -> print_parse(p, tk)
      [] p.state = "assert_parse" -> assert_parse(p, tk)
      [] p.state = "expect_semicolon" -> expect_semicolon(p, tk)

\* Source<T> for Vec<T>::take (util.rs:19-27): None on an empty Vec,
\* Some(self.remove(0)) otherwise; an Option is a sequence of at most one
Vec_take(v) == IF v = <<>> THEN <<>> ELSE <<v[1]>>

\* parse on a Vec<Token> (parser/mod.rs:90-100), stopped by a panic
RECURSIVE parse(_, _)
parse(p, tokens) ==
    IF Vec_take(tokens) = <<>> \/ p.panicked THEN p
    ELSE parse(parse_token([p EXCEPT !.emitted = NoStatement],
                           Vec_take(tokens)[1]),
               Tail1(tokens))

\* Receiver::take with try_recv in place of recv: None on an empty channel
Receiver_try_take(q, dropped) == IF q # <<>> THEN "Some" ELSE "None"

\* Source<T> for Receiver<T>::take (util.rs:35-39): recv() hands out the
\* oldest queued value, blocks while the channel is empty and the Sender
\* lives, and fails, so that take is None, once the channel is empty and the
\* Sender is dropped
Receiver_take(q, dropped) ==
    IF q # <<>> THEN "Some"
    ELSE IF dropped THEN "None"
    ELSE "Blocked"

\* the tokens the producer sends
ChannelTokens ==
    {Identifier(Str(<<"x">>)), Number(5), Semicolon, Assignment,
     KeyWord("Read")}

\* Sink<T> for Sender<T>::put (util.rs:58-62): send(thing) queues the value
\* while the Receiver lives and is Err once the Receiver is dropped, on
\* which unwrap() panics
ProducerPut ==
    /\ ~sender_dropped
    /\ ~producer_panicked
    /\ Len(sent) < MaxSent
    /\ \E tk \in ChannelTokens :
        IF receiver_dropped THEN
            /\ producer_panicked' = TRUE
            /\ UNCHANGED <<channel, sent>>
        ELSE
            /\ channel' = Append(channel, tk)
            /\ sent' = Append(sent, tk)
            /\ UNCHANGED producer_panicked
    /\ UNCHANGED <<taken, sender_dropped, receiver_dropped, parse_vars,
                   scan_vars>>

\* the producer has put its last token, or a put has panicked: its Sender
\* is dropped
ProducerDone ==
    /\ ~sender_dropped
    /\ sender_dropped' = TRUE
    /\ UNCHANGED <<channel, sent, taken, receiver_dropped, producer_panicked,
                   parse_vars, scan_vars>>

\* parse has returned or panicked: the thread that ran it drops the
\* Receiver, and the values still queued are dropped with it
ReceiverDrop ==
    /\ ~ParseRunning
    /\ ~receiver_dropped
    /\ receiver_dropped' = TRUE
    /\ channel' = <<>>
    /\ UNCHANGED <<sent, taken, sender_dropped, producer_panicked,
                   parse_vars, scan_vars>>

\* tokens.take() is Some(t): one iteration of the loop of parse
ChannelTake ==
    /\ ParseRunning
    /\ Receiver_take(channel, sender_dropped) = "Some"
    /\ parser' = parse_token(Fresh, Head(channel))
    /\ routed' = IF parser'.emitted # NoStatement THEN routed + 1 ELSE routed
    /\ t' = Head(channel)
    /\ channel' = Tail(channel)
    /\ taken' = Append(taken, Head(channel))
    /\ UNCHANGED <<parse_returned, sent, sender_dropped, receiver_dropped,
                   producer_panicked, scan_vars>>

\* tokens.take() is None: the loop ends and parse returns
ChannelEnd ==
    /\ ParseRunning
    /\ Receiver_take(channel, sender_dropped) = "None"
    /\ parse_returned' = TRUE
    /\ UNCHANGED <<parser, t, routed, chan_vars, scan_vars>>

ChannelNext ==
    \/ ProducerPut
    \/ ProducerDone
    \/ ChannelTake
    \/ ChannelEnd
    \/ ReceiverDrop

(***************************************************************************)
(* Initial state and specifications.                                       *)
(***************************************************************************)
InitScan ==
    /\ scanner = Scanner_new
    /\ c = 0
    /\ n = 0
    /\ scan_returned = FALSE
    /\ source = <<>>
    /\ returned = <<>>
    /\ word = <<>>
    /\ gdepth = 0
    /\ gprev = 0
    /\ gclean = TRUE

InitParse ==
    /\ parser = Parser_new
    /\ t = Semicolon
    /\ routed = 0
    /\ parse_returned = FALSE

InitChannel ==
    /\ channel = <<>>
    /\ sent = <<>>
    /\ taken = <<>>
    /\ sender_dropped = FALSE
    /\ receiver_dropped = FALSE
    /\ producer_panicked = FALSE

Init == InitScan /\ InitParse /\ InitChannel

\* scan on any source text
ScanSpec == Init /\ [][ScanNext]_vars

\* scan on any source text over CommentChars
CommentSpec == Init /\ [][CommentNext]_vars

\* parse on any token sequence
ParseSpec == Init /\ [][ParseNext]_vars

\* parse on any token sequence sent through a channel by a producer thread
ChannelSpec == Init /\ [][ChannelNext]_vars

(***************************************************************************)
(* Properties of the parser, under ParseSpec.                              *)
(***************************************************************************)
\* the loops and statements of a statement sequence in program order
RECURSIVE FlattenStatements(_)
FlattenStatements(stmts) ==
    IF stmts = <<>> THEN <<>>
    ELSE LET first == stmts[1] IN
         (IF first.stmt = "For"
          THEN <<DoEvent(first.name)>> \o FlattenStatements(first.body)
                    \o <<EndEvent>>
          ELSE <<StmtEvent(first)>>)
         \o FlattenStatements(Tail1(stmts))

\* the open loops of the for-loop stack, outermost first
RECURSIVE FlattenOpen(_)
FlattenOpen(frames) ==
    IF frames = <<>> THEN <<>>
    ELSE <<DoEvent(frames[1][1])>> \o FlattenStatements(frames[1][4])
            \o FlattenOpen(Tail1(frames))

\* C1: every For statement built on `end for` has as its body exactly the
\* statements completed between its `do` and its matching `end for`, in
\* order, and every `end for` closes the innermost open loop: the sink's
\* statements followed by the open frames, outermost first, read off in
\* program order are the `do`s, completed statements and `end for`s of the
\* token stream in the order they came.
C1_LoopBodiesMatchTokenOrder ==
    FlattenStatements(parser.statements) \o FlattenOpen(parser.for_buffer)
        = parser.trace

\* a loop closed inside a loop that was closed at top level, the inner one
\* with a statement in its body
C1_Witness ==
    \E i \in 1..Len(parser.statements) :
        LET f == parser.statements[i] IN
        /\ f.stmt = "For"
        /\ \E j \in 1..Len(f.body) :
            /\ f.body[j].stmt = "For"
            /\ f.body[j].body # <<>>

\* C2: a completed statement (a For after its own frame is popped) is put
\* into the sink if and only if the for-loop stack is empty at that moment;
\* otherwise it is appended to the body of the top frame and the sink is
\* unchanged; a step that completes no statement leaves the sink unchanged.
C2_RoutedBySinkOrTopFrame ==
    [][IF routed' = routed + 1
       THEN LET st == parser'.emitted
                stack == IF st.stmt = "For" THEN Front(parser.for_buffer)
                         ELSE parser.for_buffer
            IN  IF stack = <<>>
                THEN /\ parser'.statements = Append(parser.statements, st)
                     /\ parser'.for_buffer = <<>>
                ELSE /\ parser'.statements = parser.statements
                     /\ parser'.for_buffer =
                            [stack EXCEPT ![Len(stack)][4] = Append(@, st)]
       ELSE parser'.statements = parser.statements]_vars

\* a For with a statement in its body has just been put into the sink after
\* an earlier top-level statement
C2_Witness ==
    /\ parser.emitted.stmt = "For"
    /\ parser.emitted.body # <<>>
    /\ parser.for_buffer = <<>>
    /\ Len(parser.statements) = 2
    /\ parser.statements[2] = parser.emitted

\* C3: when the token source is exhausted, parse returns normally only in
\* the Normal state with an empty for-loop stack.
C3_ReturnsOnlyWhenComplete ==
    parse_returned =>
        /\ parser.state = "normal_parse"
        /\ parser.for_buffer = <<>>

\* C4: after `var` identifier `:` type (and an optional initializer) the
\* token `;` makes the parser route one Declaration and return to Normal.
C4_DeclarationEndsAtSemicolon ==
    [][(/\ parser.state = "variable_definition_parse"
        /\ Len(parser.buffer) = 3
        /\ ~parse_returned'
        /\ t' = Semicolon)
       => (/\ parser'.state = "normal_parse"
           /\ routed' = routed + 1
           /\ parser'.emitted.stmt = "Declaration")]_vars

\* C5: after `print` and expression tokens the next `;` makes the parser
\* route one Print statement and return to Normal.
C5_PrintEndsAtSemicolon ==
    [][(/\ parser.state = "print_parse"
        /\ t.kind \in {"Identifier", "Number"}
        /\ ~parse_returned'
        /\ t' = Semicolon)
       => (/\ parser'.state = "normal_parse"
           /\ routed' = routed + 1
           /\ parser'.emitted.stmt = "Print")]_vars

\* a step of parse that took a token
TokenTaken == parse_returned' = parse_returned /\ parse_vars' # parse_vars

\* C16: parse_expression gives each operand the value of its token: the
\* tokens `x := 5 ;` produce Assignment("x", Singleton(Int(5))), and so for
\* every Number token that is the whole right-hand side.
C16_ExpressionCarriesOperand ==
    [][(/\ parser.state = "assignment_parse"
        /\ Len(parser.buffer) = 3
        /\ parser.buffer[3].kind = "Number"
        /\ TokenTaken
        /\ t' = Semicolon)
       => parser'.emitted =
            StmtAssignment(parser.buffer[1].val,
                           ExprSingleton(OperandInt(parser.buffer[3].val)))]_vars

\* C17: after `read` and an identifier the only accepted token is `;`: any
\* other token is a syntax error.
C17_ReadEndsAtSemicolon ==
    [][(/\ parser.emitted.stmt = "Read"
        /\ TokenTaken
        /\ t' # Semicolon)
       => parser'.panicked]_vars

\* the number of `..` tokens in a token buffer
RangeCount(q) == Cardinality({i \in 1..Len(q) : q[i] = Range})

\* C18: in a for header, after `in`, a second `..` is a syntax error, `do`
\* with no `..` seen is a syntax error, and a `do` that is accepted has
\* exactly one `..` before it, pushes exactly one frame with an empty body
\* on the for-loop stack and leaves the parser in Normal; no other token
\* of the header touches the stack.
C18_ForHeaderOneRange ==
    [][(/\ parser.state = "for_loop_parse"
        /\ Len(parser.buffer) >= 2
        /\ TokenTaken)
       => /\ (t' = Range /\ RangeCount(parser.buffer) >= 1)
                => parser'.panicked
          /\ (t' = KeyWord("Do") /\ RangeCount(parser.buffer) = 0)
                => parser'.panicked
          /\ (t' = KeyWord("Do") /\ ~parser'.panicked)
                => /\ RangeCount(parser.buffer) = 1
                   /\ Len(parser'.for_buffer) = Len(parser.for_buffer) + 1
                   /\ Front(parser'.for_buffer) = parser.for_buffer
                   /\ parser'.for_buffer[Len(parser'.for_buffer)][4] = <<>>
                   /\ parser'.state = "normal_parse"
          /\ t' # KeyWord("Do")
                => parser'.for_buffer = parser.for_buffer]_vars

\* a for header was accepted at `do` inside an open loop
C18_Witness ==
    /\ parser.state = "normal_parse"
    /\ ~parser.panicked
    /\ t = KeyWord("Do")
    /\ Len(parser.for_buffer) = 2

\* C19: after `end`, the token `for` with an open loop is accepted and the
\* parser then expects `;`; `for` with an empty for-loop stack and every
\* other token are syntax errors that put nothing into the sink; after an
\* accepted `end for` only `;` is accepted and it returns the parser to
\* Normal.
C19_EndForThenSemicolon ==
    [][/\ (parser.state = "expect_end_for" /\ TokenTaken)
            => IF t' = KeyWord("For") /\ parser.for_buffer # <<>>
               THEN /\ ~parser'.panicked
                    /\ parser'.state = "expect_semicolon"
               ELSE /\ parser'.panicked
                    /\ parser'.statements = parser.statements
       /\ (parser.state = "expect_semicolon" /\ TokenTaken)
            => IF t' = Semicolon
               THEN /\ ~parser'.panicked
                    /\ parser'.state = "normal_parse"
                    /\ parser'.statements = parser.statements
                    /\ parser'.for_buffer = parser.for_buffer
               ELSE parser'.panicked]_vars

\* `end for ;` was accepted and closed a loop with a statement in its body
C19_Witness ==
    /\ parser.state = "normal_parse"
    /\ ~parser.panicked
    /\ t = Semicolon
    /\ parser.trace # <<>>
    /\ parser.trace[Len(parser.trace)] = EndEvent
    /\ parser.statements # <<>>
    /\ parser.statements[Len(parser.statements)].stmt = "For"
    /\ parser.statements[Len(parser.statements)].body # <<>>

\* C21: a for header whose from-expression or to-expression would be parsed
\* from an empty token slice (nothing between `in` and `..`, or nothing
\* between `..` and `do`) is a syntax error at `do` and pushes no frame.
C21_ForExpressionsNonEmpty ==
    [][(/\ parser.state = "for_loop_parse"
        /\ Len(parser.buffer) >= 2
        /\ TokenTaken
        /\ t' = KeyWord("Do")
        /\ \/ parser.buffer[Len(parser.buffer)] = Range
           \/ Len(parser.buffer) >= 3 /\ parser.buffer[3] = Range)
       => /\ parser'.panicked
          /\ parser'.for_buffer = parser.for_buffer]_vars

\* C23: whenever the parser is in the Normal state its token buffer is
\* empty and for_range_pointer is 0; so a token accepted in Normal starts
\* the next sub-machine with a buffer of length 1 (Assignment) or 0 (every
\* other), and at a `do` that passes the range check the slices
\* buffer[2..ptr] and buffer[ptr+1..len] are within bounds.
C23_NormalStartsClean ==
    /\ [](parser.state = "normal_parse"
            => parser.buffer = <<>> /\ parser.for_range_pointer = 0)
    /\ [][(/\ parser.state = "normal_parse"
           /\ TokenTaken
           /\ ~parser'.panicked)
          => Len(parser'.buffer) =
                (IF parser'.state = "assignment_parse" THEN 1 ELSE 0)]_vars
    /\ [][(/\ parser.state = "for_loop_parse"
           /\ Len(parser.buffer) >= 2
           /\ TokenTaken
           /\ t' = KeyWord("Do")
           /\ parser.for_range_pointer >= 3)
          => /\ SliceOk(parser.buffer, 2, parser.for_range_pointer)
             /\ SliceOk(parser.buffer, parser.for_range_pointer + 1,
                        Len(parser.buffer))
             /\ ~parser'.panicked]_vars

\* the parser is back in Normal after an assignment inside an open loop
C23_Witness ==
    /\ parser.state = "normal_parse"
    /\ ~parser.panicked
    /\ parser.emitted.stmt = "Assignment"
    /\ parser.for_buffer # <<>>

(***************************************************************************)
(* Properties of parse fed through a channel, under ChannelSpec.           *)
(***************************************************************************)
\* C15: the statements parse puts into its sink from a channel are those it
\* puts into it from a Vec holding the same tokens, under every
\* interleaving of the producer's puts and the parser's takes: at every
\* moment the sink holds what parse produces from the tokens received so
\* far, which are the tokens sent less those still queued; a parse that has
\* panicked leaves in the sink what parse on a Vec of the tokens sent leaves;
\* and parse sees the end of the stream only after the producer has
\* finished and every token sent has been received.
C15_ChannelSameAsBuffer ==
    /\ parser.statements = parse(Parser_new, taken).statements
    /\ ~receiver_dropped => taken \o channel = sent
    /\ parser.panicked =>
            parser.statements = parse(Parser_new, sent).statements
    /\ parse_returned =>
            /\ sender_dropped
            /\ channel = <<>>
            /\ taken = sent
            /\ parser.statements = parse(Parser_new, sent).statements

\* parse has returned after two statements came through the channel
C15_Witness ==
    /\ parse_returned
    /\ Len(sent) = MaxSent
    /\ Len(parser.statements) = 2

(***************************************************************************)
(* Properties of the scanner, under ScanSpec.                              *)
(***************************************************************************)
\* C6: in Other mode, a character that is neither alphanumeric nor an
\* underscore makes the scanner emit the token of exactly the characters
\* accumulated since this word began: the Keyword of that text if it is a
\* reserved word, the Identifier with that text otherwise.
C6_WordTokenIsOwnText ==
    [][(/\ scanner.scan_mode = "Other"
        /\ n' = n + 1
        /\ ~(IsAlphanumeric(c') \/ c' = Ch("_")))
       => (/\ Len(scanner'.tokens) > Len(scanner.tokens)
           /\ scanner'.tokens[Len(scanner.tokens) + 1] = WordToken(word))]_vars

\* C7: in a block comment the nesting counter is the depth by the textual
\* rule (up at each "/*", down at each "*/", pairs read left to right, no
\* character used twice) and the scanner is in BlockComment mode exactly
\* while that depth is above 0.  Stated for comments entered with an empty
\* character buffer.
C7_BlockCommentNesting ==
    gclean =>
        /\ scanner.block_comment_counter = gdepth
        /\ (scanner.scan_mode = "BlockComment") <=> (gdepth > 0)

\* C8: where the scanner is between tokens or has just finished accumulating
\* a token, the empty block comment "/**/" leaves the scanner exactly as a
\* space does: back in Normal, with the same tokens and buffers.
C8_EmptyCommentLikeSpace ==
    (ScanRunning /\ scanner.scan_mode \in {"Normal", "Number", "Other"})
    => /\ scan_text(scanner, Str(<<"/", "*", "*", "/">>))
            = scan_text(scanner, Str(<<" ">>))
       /\ scan_text(scanner, Str(<<"/", "*", "*", "/">>)).scan_mode = "Normal"

\* C9: in PossibleComment mode a character other than "/" or "*" makes the
\* scanner emit Operator(Divide) and then process that same character in
\* Normal mode.
C9_DivideReprocessesChar ==
    [][(/\ scanner.scan_mode = "PossibleComment"
        /\ n' = n + 1
        /\ c' \notin {Ch("/"), Ch("*")})
       => scanner' =
            normal_scan(
                [PushToken(scanner, Operator("Divide"))
                    EXCEPT !.scan_mode = "Normal"],
                c')]_vars

\* C10: in a \x escape with one or two hex digits the first non-hex
\* character ends the escape: the decoded byte is appended to the string
\* buffer and the terminating character is handled as string_scan handles it.
C10_HexEscapeTerminator ==
    [][(/\ scanner.scan_mode = "Escape"
        /\ n' = n + 1
        /\ scanner.escape_buffer # <<>>
        /\ scanner.escape_buffer[1] = Ch("x")
        /\ Len(scanner.escape_buffer) \in {2, 3}
        /\ ~IsHexDigit(c'))
       => scanner' =
            string_scan(
                [scanner EXCEPT
                    !.buffer =
                        Append(@, FromStrRadix(Tail1(scanner.escape_buffer), 16)),
                    !.escape_buffer = <<>>,
                    !.scan_mode = "StringLiteral"],
                c')]_vars

\* C11: after `\u` and exactly 4 hex digits (`\U` and exactly 8) that name a
\* code point, the scanner appends that one code point to the string buffer,
\* empties the escape buffer and returns to StringLiteral mode.
C11_UnicodeEscapeCompletes ==
    [][(/\ scanner.scan_mode = "Escape"
        /\ n' = n + 1
        /\ scanner.escape_buffer # <<>>
        /\ \/ /\ scanner.escape_buffer[1] = Ch("u")
              /\ Len(scanner.escape_buffer) = 4
           \/ /\ scanner.escape_buffer[1] = Ch("U")
              /\ Len(scanner.escape_buffer) = 8
        /\ IsHexDigit(c')
        /\ from_u32(Append(Tail1(scanner.escape_buffer), c')) >= 0)
       => scanner' =
            [scanner EXCEPT
                !.buffer =
                    Append(@, from_u32(Append(Tail1(scanner.escape_buffer), c'))),
                !.escape_buffer = <<>>,
                !.scan_mode = "StringLiteral"]]_vars

\* C12: when the source ends in Number or Other mode with a non-empty
\* buffer, scan returns the tokens emitted so far followed by one final
\* token for the buffered text: a Number in Number mode, a Keyword or an
\* Identifier in Other mode.
C12_FlushAtEndOfInput ==
    [][(/\ ~scan_returned /\ scan_returned'
        /\ scanner.scan_mode \in {"Number", "Other"}
        /\ scanner.buffer # <<>>)
       => LET result == returned'[Len(returned')] IN
          /\ Len(result) = Len(scanner.tokens) + 1
          /\ SubSeq(result, 1, Len(scanner.tokens)) = scanner.tokens
          /\ result[Len(result)].kind \in
                (IF scanner.scan_mode = "Number" THEN {"Number"}
                 ELSE {"KeyWord", "Identifier"})]_vars

\* C13: a call of scan whose source ends in StringLiteral, Escape or
\* BlockComment mode does not return a token sequence.
C13_NoReturnInsideLiteralOrComment ==
    (scan_returned /\ ~scanner.panicked)
    => scanner.scan_mode \notin {"StringLiteral", "Escape", "BlockComment"}

\* C14: the calls of scan on one Scanner with the same source all return
\* the same token sequence.
C14_RepeatedScanSameTokens ==
    \A i \in 1..Len(returned) : returned[i] = returned[1]

\* C20: in Number mode a character that is not a digit makes the scanner
\* emit one Number token for the buffered digits, empty the buffer and
\* process that same character in Normal mode.
C20_NumberEndsAtNonDigit ==
    [][(/\ scanner.scan_mode = "Number"
        /\ n' = n + 1
        /\ ~IsDigit(c'))
       => /\ ~scanner'.panicked
          /\ scanner' =
                normal_scan(
                    [scanner EXCEPT
                        !.tokens =
                            Append(@, Number(FromStrRadix(scanner.buffer, 10))),
                        !.buffer = <<>>,
                        !.scan_mode = "Normal"],
                    c')]_vars

\* C24: the escape buffer, when it is not empty, starts with "x", "u" or
\* "U", so that the last arm of the match on its first character in
\* escape_scan is never executed.
C24_EscapeBufferStartsWithXuU ==
    scanner.escape_buffer # <<>>
    => scanner.escape_buffer[1] \in {Ch("x"), Ch("u"), Ch("U")}

(***************************************************************************)
(* Properties of the scanner on comments, under CommentSpec.               *)
(***************************************************************************)
\* C22: block_comment_counter is at least 1 in BlockComment mode and 0 in
\* every other mode, in every state the scanner reaches, also where a
\* handler has panicked: the decrement of block_comment_handling, which is
\* executed in BlockComment mode only, never finds the counter at 0.
C22_CounterMatchesMode ==
    IF scanner.scan_mode = "BlockComment"
    THEN scanner.block_comment_counter >= 1
    ELSE scanner.block_comment_counter = 0

\* a comment nested in a comment has just been closed: the counter went
\* from 2 to 1 and the scanner is still in BlockComment mode
C22_Witness ==
    /\ scanner.scan_mode = "BlockComment"
    /\ scanner.block_comment_counter = 1
    /\ scanner.buffer = <<>>
    /\ n >= 6
    /\ SubSeq(source, n - 5, n) = Str(<<"/", "*", "/", "*", "*", "/">>)

====
